---- MODULE Spec2Model ----
(***************************************************************************)
(* pyPS4Controller: the Controller of src/pyPS4Controller/controller.py.   *)
(* One Controller object, the main thread that drives it (start_listening, *)
(* stop_listening, a direct call of listen), the threads running listen,   *)
(* one consumer iterating state_updates, and the device file.              *)
(***************************************************************************)
EXTENDS Integers, Sequences, FiniteSets, TLC

\* ---------------------------------------------------------------- bounds
\* listen invocations (threads of start_listening plus direct calls)
MaxRunners == 2
\* full records the device delivers, over all open files
MaxRecords == 2
\* largest timeout argument tried
MaxTimeout == 2
\* KeyboardInterrupts raised
MaxInterrupts == 1
\* calls of _handle_event in a row, on the button and trigger events
MaxEvents == 4
\* calls of _handle_event in a row, on every kind of event
MaxDispatch == 2
\* calls of _handle_event in a row, next to a reader of the snapshot
MaxTorn == 3
\* calls of _handle_event in a row, on events answering two predicates
MaxOrder == 2

Runners == 1..MaxRunners
Timeouts == 0..MaxTimeout

\* ------------------------------------------------------ program constants
\* struct.calcsize("3Bh2b"): 3 unsigned bytes, a pad byte, a short, 2 bytes
event_size == 8
\* the rest value of the analog triggers
TriggerRest == -32767

\* ------------------------------------------------------------- the state
VARIABLES
    stop,              \* self.stop
    is_connected,      \* self.is_connected
    state,             \* self.state, the ControllerState
    event_history,     \* self.event_history
    state_queue,       \* self._state_queue
    listening_thread,  \* self._listening_thread: 0 is None, else a runner
    exists,            \* path.exists(self.interface)
    run,               \* the listen invocations, see NewRunner
    main,              \* the main thread, see Init
    consumer,          \* the state_updates generator and its caller
    nDelivered,        \* full records delivered so far, over all files
    nInterrupts,       \* KeyboardInterrupts raised so far
    stopped,           \* stop_listening has returned, no start_listening since
    h                  \* _handle_event called on its own, see HInit

vars == <<stop, is_connected, state, event_history, state_queue,
          listening_thread, exists, run, main, consumer, nDelivered,
          nInterrupts, stopped, h>>

\* ControllerState.__init__
ControllerState ==
    [x_button |-> FALSE, triangle_button |-> FALSE, circle_button |-> FALSE,
     square_button |-> FALSE,
     L1_button |-> FALSE, L2_button |-> TriggerRest, L3_button |-> FALSE,
     R1_button |-> FALSE, R2_button |-> TriggerRest, R3_button |-> FALSE,
     up_arrow |-> FALSE, down_arrow |-> FALSE, left_arrow |-> FALSE,
     right_arrow |-> FALSE,
     L3_x_axis |-> 0, L3_y_axis |-> 0, R3_x_axis |-> 0, R3_y_axis |-> 0,
     share_button |-> FALSE, options_button |-> FALSE,
     playstation_button |-> FALSE]

\* ------------------------------------------------------------ decoding
\* a signed 16-bit value from its two bytes, low byte first
S16(lo, hi) == LET u == lo + 256 * hi IN IF u >= 32768 THEN u - 65536 ELSE u
\* a signed byte
S8(b) == IF b >= 128 THEN b - 256 ELSE b

\* struct.unpack("3Bh2b", event): six fields out of eight bytes
StructUnpack(event) ==
    <<event[1], event[2], event[3], S16(event[5], event[6]),
      S8(event[7]), S8(event[8])>>

\* Controller._unpack_event: (overflow, value, button_type, button_id)
_unpack_event(event) ==
    LET e == StructUnpack(event)
    IN  <<SubSeq(e, 4, 6), e[3], e[2], e[1]>>

\* The injected event_definition: the event object built from one record.
\* preds is the set of the predicates that answer True, value is event.value.
event_definition(button_id, button_type, value, overflow) ==
    [value |-> value,
     preds |->
        IF button_type = 1 /\ button_id = 1
        THEN (IF value = 1 THEN {"circle_pressed"}
              ELSE IF value = 0 THEN {"circle_released"} ELSE {})
        ELSE IF button_type = 2 /\ button_id = 2
        THEN (IF value = 0 THEN {"L2_released"} ELSE {"L2_pressed"})
        ELSE IF button_type = 2 /\ button_id = 3
        THEN (IF value = 0 THEN {"R3_event", "R3_x_at_rest"}
              ELSE {"R3_event", "R3_right"})
        ELSE IF button_type = 2 /\ button_id = 6
        THEN (IF value = 0 THEN {"left_right_arrow_released"}
              ELSE {"right_arrow_pressed"})
        ELSE {}]

\* one predicate of the event object, e.g. event.circle_pressed()
Is(event, p) == p \in event.preds

\* the right-stick branch with the directional checks first
R3Branch_DirectionFirst(st, event) ==
    IF Is(event, "R3_right") THEN [st EXCEPT !.R3_x_axis = event.value]
    ELSE IF Is(event, "R3_left") THEN [st EXCEPT !.R3_x_axis = event.value]
    ELSE IF Is(event, "R3_up") THEN [st EXCEPT !.R3_y_axis = event.value]
    ELSE IF Is(event, "R3_down") THEN [st EXCEPT !.R3_y_axis = event.value]
    ELSE IF Is(event, "R3_y_at_rest") THEN [st EXCEPT !.R3_y_axis = 0]
    ELSE IF Is(event, "R3_x_at_rest") THEN [st EXCEPT !.R3_x_axis = 0]
    ELSE st

\* the right-stick branch of _handle_event: at most one axis is written
R3Branch(st, event) ==
    IF Is(event, "R3_y_at_rest") THEN [st EXCEPT !.R3_y_axis = 0]
    ELSE IF Is(event, "R3_x_at_rest") THEN [st EXCEPT !.R3_x_axis = 0]
    ELSE IF Is(event, "R3_right") THEN [st EXCEPT !.R3_x_axis = event.value]
    ELSE IF Is(event, "R3_left") THEN [st EXCEPT !.R3_x_axis = event.value]
    ELSE IF Is(event, "R3_up") THEN [st EXCEPT !.R3_y_axis = event.value]
    ELSE IF Is(event, "R3_down") THEN [st EXCEPT !.R3_y_axis = event.value]
    ELSE st

\* the left-stick branch of _handle_event
L3Branch(st, event) ==
    IF Is(event, "L3_y_at_rest") THEN [st EXCEPT !.L3_y_axis = 0]
    ELSE IF Is(event, "L3_x_at_rest") THEN [st EXCEPT !.L3_x_axis = 0]
    ELSE IF Is(event, "L3_up") THEN [st EXCEPT !.L3_y_axis = event.value]
    ELSE IF Is(event, "L3_down") THEN [st EXCEPT !.L3_y_axis = event.value]
    ELSE IF Is(event, "L3_left") THEN [st EXCEPT !.L3_x_axis = event.value]
    ELSE IF Is(event, "L3_right") THEN [st EXCEPT !.L3_x_axis = event.value]
    ELSE st

\* what one branch leaves behind: the snapshot and the history
Out(st, hist) == [state |-> st, event_history |-> hist]

\* Controller._handle_event, the if/elif chain in the order of the source
_handle_event(st, hist, event) ==
    IF Is(event, "R3_event")
    THEN Out(R3Branch(st, event), Append(hist, "right_joystick"))
    ELSE IF Is(event, "L3_event")
    THEN Out(L3Branch(st, event), Append(hist, "left_joystick"))
    ELSE IF Is(event, "circle_pressed")
    THEN Out([st EXCEPT !.circle_button = TRUE], Append(hist, "circle"))
    ELSE IF Is(event, "circle_released")
    THEN Out([st EXCEPT !.circle_button = FALSE], hist)
    ELSE IF Is(event, "x_pressed")
    THEN Out([st EXCEPT !.x_button = TRUE], Append(hist, "x"))
    ELSE IF Is(event, "x_released")
    THEN Out([st EXCEPT !.x_button = FALSE], hist)
    ELSE IF Is(event, "triangle_pressed")
    THEN Out([st EXCEPT !.triangle_button = TRUE], Append(hist, "triangle"))
    ELSE IF Is(event, "triangle_released")
    THEN Out([st EXCEPT !.triangle_button = FALSE], hist)
    ELSE IF Is(event, "square_pressed")
    THEN Out([st EXCEPT !.square_button = TRUE], Append(hist, "square"))
    ELSE IF Is(event, "square_released")
    THEN Out([st EXCEPT !.square_button = FALSE], hist)
    ELSE IF Is(event, "L1_pressed")
    THEN Out([st EXCEPT !.L1_button = TRUE], Append(hist, "L1"))
    ELSE IF Is(event, "L1_released")
    THEN Out([st EXCEPT !.L1_button = FALSE], hist)
    ELSE IF Is(event, "L2_pressed")
    THEN Out([st EXCEPT !.L2_button = event.value], Append(hist, "L2"))
    ELSE IF Is(event, "L2_released")
    THEN Out([st EXCEPT !.L2_button = TriggerRest], hist)
    ELSE IF Is(event, "R1_pressed")
    THEN Out([st EXCEPT !.R1_button = TRUE], Append(hist, "R1"))
    ELSE IF Is(event, "R1_released")
    THEN Out([st EXCEPT !.R1_button = FALSE], hist)
    ELSE IF Is(event, "R2_pressed")
    THEN Out([st EXCEPT !.R2_button = event.value], Append(hist, "R2"))
    ELSE IF Is(event, "R2_released")
    THEN Out([st EXCEPT !.R2_button = TriggerRest], hist)
    ELSE IF Is(event, "options_pressed")
    THEN Out([st EXCEPT !.options_button = TRUE], Append(hist, "options"))
    ELSE IF Is(event, "options_released")
    THEN Out([st EXCEPT !.options_button = FALSE], hist)
    ELSE IF Is(event, "left_right_arrow_released")
    THEN Out([st EXCEPT !.left_arrow = FALSE, !.right_arrow = FALSE], hist)
    ELSE IF Is(event, "up_down_arrow_released")
    THEN Out([st EXCEPT !.up_arrow = FALSE, !.down_arrow = FALSE], hist)
    ELSE IF Is(event, "left_arrow_pressed")
    THEN Out([st EXCEPT !.left_arrow = TRUE], Append(hist, "left"))
    ELSE IF Is(event, "right_arrow_pressed")
    THEN Out([st EXCEPT !.right_arrow = TRUE], Append(hist, "right"))
    ELSE IF Is(event, "up_arrow_pressed")
    THEN Out([st EXCEPT !.up_arrow = TRUE], Append(hist, "up"))
    ELSE IF Is(event, "down_arrow_pressed")
    THEN Out([st EXCEPT !.down_arrow = TRUE], Append(hist, "down"))
    ELSE IF Is(event, "playstation_button_pressed")
    THEN Out([st EXCEPT !.playstation_button = TRUE], Append(hist, "ps"))
    ELSE IF Is(event, "playstation_button_released")
    THEN Out([st EXCEPT !.playstation_button = FALSE], hist)
    ELSE IF Is(event, "share_pressed")
    THEN Out([st EXCEPT !.share_button = TRUE], Append(hist, "share"))
    ELSE IF Is(event, "share_released")
    THEN Out([st EXCEPT !.share_button = FALSE], hist)
    ELSE IF Is(event, "R3_pressed")
    THEN Out([st EXCEPT !.R3_button = TRUE], Append(hist, "R3"))
    ELSE IF Is(event, "R3_released")
    THEN Out([st EXCEPT !.R3_button = FALSE], hist)
    ELSE IF Is(event, "L3_pressed")
    THEN Out([st EXCEPT !.L3_button = TRUE], Append(hist, "L3"))
    ELSE IF Is(event, "L3_released")
    THEN Out([st EXCEPT !.L3_button = FALSE], hist)
    ELSE Out(st, hist)

\* ------------------------------------------------------ the device stream
\* the records the device may deliver: circle pressed (one field
\* assigned), left+right released (two), an unknown id (none)
RecCircle == <<1, 1, 1, 0, 0, 0, 0, 0>>
RecLeftRight == <<6, 2, 0, 0, 255, 127, 0, 0>>
RecUnknown == <<9, 1, 1, 0, 1, 128, 255, 2>>

SampleRecords == {RecCircle, RecLeftRight, RecUnknown}

\* what a read returns when fewer than event_size bytes are left:
\* nothing (end of stream) or the first bytes of a record (torn read)
ShortChunks == { <<>>, <<1, 1, 1>> }

\* _file.read(self.event_size): a full record while the device has some,
\* or a short chunk
ReadResults ==
    (IF nDelivered < MaxRecords THEN SampleRecords ELSE {}) \cup ShortChunks

\* ---------------------------------------------------- listen invocations
\* a listen call that has just been entered. interrupted is "no" or the
\* position at which KeyboardInterrupt was raised; the last four fields are
\* history: records read, records passed to _handle_event, signals put,
\* reads completed while stop has been set
NewRunner(k, to) ==
    [pc |-> "poll", kind |-> k, timeout |-> to, pollLog |-> <<>>,
     gate |-> "pending", opened |-> FALSE, event |-> <<>>, exc |-> "none",
     interrupted |-> "no", joining |-> 0,
     delivered |-> <<>>, handled |-> <<>>, nput |-> 0, readsSinceStop |-> 0]

Unborn == [NewRunner("none", 0) EXCEPT !.pc = "unborn"]

HasFree == \E t \in Runners : run[t].pc = "unborn"
FreeRunner ==
    CHOOSE t \in Runners :
        /\ run[t].pc = "unborn"
        /\ \A u \in Runners : u < t => run[u].pc # "unborn"

\* the positions inside the try block of listen
TryPcs == {"open", "read", "process", "put"}

\* no call of _handle_event yet. trace: the event objects passed so far;
\* pending: the snapshot the call in progress will leave, while it stands
\* between its two assignments; seen: the last get_current_state result
HInit == [trace |-> <<>>, pending |-> <<>>, seen |-> <<>>]

Init ==
    /\ stop = FALSE
    /\ is_connected = FALSE
    /\ state = ControllerState
    /\ event_history = <<>>
    /\ state_queue = <<>>
    /\ listening_thread = 0
    /\ exists \in BOOLEAN
    /\ run = [t \in Runners |-> Unborn]
    /\ main = [pc |-> "idle", target |-> 0]
    /\ consumer = [pc |-> "check", nYield |-> 0, yieldsSinceStop |-> 0]
    /\ nDelivered = 0
    /\ nInterrupts = 0
    /\ stopped = FALSE
    /\ h = HInit

\* ------------------------------------------------------- the main thread
\* Controller.start_listening(timeout)
StartListening(to) ==
    /\ main.pc = "idle"
    /\ HasFree
    /\ stop' = FALSE
    /\ listening_thread' = FreeRunner
    /\ run' = [t \in Runners |->
                 IF t = FreeRunner THEN NewRunner("thread", to)
                 ELSE [run[t] EXCEPT !.readsSinceStop = 0]]
    /\ consumer' = [consumer EXCEPT !.yieldsSinceStop = 0]
    /\ stopped' = FALSE
    /\ UNCHANGED <<is_connected, state, event_history, state_queue, exists,
                   main, nDelivered, nInterrupts, h>>

\* Controller.listen(timeout) called on the main thread itself
ListenDirect(to) ==
    /\ main.pc = "idle"
    /\ HasFree
    /\ run' = [run EXCEPT ![FreeRunner] = NewRunner("direct", to)]
    /\ main' = [pc |-> "listening", target |-> FreeRunner]
    /\ UNCHANGED <<stop, is_connected, state, event_history, state_queue,
                   listening_thread, exists, consumer, nDelivered,
                   nInterrupts, stopped, h>>

\* the direct call of listen returns (or raises) to the main thread
DirectReturn ==
    /\ main.pc = "listening"
    /\ run[main.target].pc = "done"
    /\ main' = [pc |-> "idle", target |-> 0]
    /\ UNCHANGED <<stop, is_connected, state, event_history, state_queue,
                   listening_thread, exists, run, consumer, nDelivered,
                   nInterrupts, stopped, h>>

\* Controller.stop_listening, up to the join
StopListening ==
    /\ main.pc = "idle"
    /\ stop' = TRUE
    /\ IF listening_thread = 0
       THEN /\ stopped' = TRUE
            /\ main' = main
       ELSE /\ main' = [pc |-> "joining", target |-> listening_thread]
            /\ stopped' = stopped
    /\ UNCHANGED <<is_connected, state, event_history, state_queue,
                   listening_thread, exists, run, consumer, nDelivered,
                   nInterrupts, h>>

\* self._listening_thread.join() returns: stop_listening has returned
JoinReturn ==
    /\ main.pc = "joining"
    /\ run[main.target].pc = "done"
    /\ main' = [pc |-> "idle", target |-> 0]
    /\ stopped' = TRUE
    /\ UNCHANGED <<stop, is_connected, state, event_history, state_queue,
                   listening_thread, exists, run, consumer, nDelivered,
                   nInterrupts, h>>

\* ------------------------------------------------------------ the device
\* some listen call may still look at the path
PathWatched == \E t \in Runners : run[t].pc \in {"unborn", "poll", "open"}

DeviceAppears ==
    /\ ~exists
    /\ PathWatched
    /\ exists' = TRUE
    /\ UNCHANGED <<stop, is_connected, state, event_history, state_queue,
                   listening_thread, run, main, consumer, nDelivered,
                   nInterrupts, stopped, h>>

DeviceDisappears ==
    /\ exists
    /\ PathWatched
    /\ exists' = FALSE
    /\ UNCHANGED <<stop, is_connected, state, event_history, state_queue,
                   listening_thread, run, main, consumer, nDelivered,
                   nInterrupts, stopped, h>>

\* ------------------------------------------------------ Controller.listen
\* wait_for_interface, one iteration of the for loop: path.exists, then
\* on_connect_callback and return True, or sleep(1)
PollInterface(t) ==
    /\ run[t].pc = "poll"
    /\ Len(run[t].pollLog) < run[t].timeout
    /\ IF exists
       THEN /\ is_connected' = TRUE
            /\ run' = [run EXCEPT ![t].pollLog = Append(@, TRUE),
                                  ![t].gate = "ok",
                                  ![t].pc = "open"]
       ELSE /\ is_connected' = is_connected
            /\ run' = [run EXCEPT ![t].pollLog = Append(@, FALSE)]
    /\ UNCHANGED <<stop, state, event_history, state_queue, listening_thread,
                   exists, main, consumer, nDelivered, nInterrupts, stopped,
                   h>>

\* a gate whose failure is not looked at: listen goes on to open the file
GiveUp_StillOpens(t) ==
    /\ run[t].pc = "poll"
    /\ Len(run[t].pollLog) >= run[t].timeout
    /\ is_connected' = FALSE
    /\ run' = [run EXCEPT ![t].gate = "failed", ![t].pc = "open"]
    /\ UNCHANGED <<stop, state, event_history, state_queue, listening_thread,
                   exists, main, consumer, nDelivered, nInterrupts, stopped,
                   h>>

\* a gate that gives up one attempt early: for _ in range(timeout - 1)
GiveUp_OneEarly(t) ==
    /\ run[t].pc = "poll"
    /\ Len(run[t].pollLog) >= run[t].timeout - 1
    /\ is_connected' = FALSE
    /\ run' = [run EXCEPT ![t].gate = "failed", ![t].pc = "done"]
    /\ UNCHANGED <<stop, state, event_history, state_queue, listening_thread,
                   exists, main, consumer, nDelivered, nInterrupts, stopped,
                   h>>

\* wait_for_interface, the loop is exhausted: on_disconnect_callback,
\* return False, and listen returns
GiveUp(t) ==
    /\ run[t].pc = "poll"
    /\ Len(run[t].pollLog) >= run[t].timeout
    /\ is_connected' = FALSE
    /\ run' = [run EXCEPT ![t].gate = "failed", ![t].pc = "done"]
    /\ UNCHANGED <<stop, state, event_history, state_queue, listening_thread,
                   exists, main, consumer, nDelivered, nInterrupts, stopped,
                   h>>

\* open(self.interface, "rb"): FileNotFoundError when the path is gone.
\* The timeout and the polls made are not read again after the gate, and
\* are forgotten here.
OpenInterface(t) ==
    /\ run[t].pc = "open"
    /\ IF exists
       THEN run' = [run EXCEPT ![t].opened = TRUE, ![t].pc = "read",
                               ![t].timeout = 0, ![t].pollLog = <<>>]
       ELSE run' = [run EXCEPT ![t].exc = "FileNotFoundError",
                               ![t].pc = "done",
                               ![t].timeout = 0, ![t].pollLog = <<>>]
    /\ UNCHANGED <<stop, is_connected, state, event_history, state_queue,
                   listening_thread, exists, main, consumer, nDelivered,
                   nInterrupts, stopped, h>>

\* a loop condition that forgets the stop flag: while event
LoopCondition_NoStop(stopFlag, chunk) == chunk # <<>>

\* while not self.stop and event
LoopCondition(stopFlag, chunk) == ~stopFlag /\ chunk # <<>>

\* a loop whose closing read is not assigned to event: the record just
\* handled is handled again
ReadEvent_Stale(t) ==
    /\ run[t].pc = "read"
    /\ \E chunk \in ReadResults :
          LET full == Len(chunk) = event_size
              kept == IF run[t].event # <<>> THEN run[t].event ELSE chunk
          IN  /\ run' = [run EXCEPT
                    ![t].event = IF LoopCondition(stop, kept)
                                 THEN kept ELSE <<>>,
                    ![t].delivered = IF full THEN Append(@, chunk) ELSE @,
                    ![t].readsSinceStop = IF stop THEN @ + 1 ELSE @,
                    ![t].pc = IF LoopCondition(stop, kept)
                              THEN "process" ELSE "done"]
              /\ nDelivered' = IF full THEN nDelivered + 1 ELSE nDelivered
    /\ UNCHANGED <<stop, is_connected, state, event_history, state_queue,
                   listening_thread, exists, main, consumer, nInterrupts,
                   stopped, h>>

\* event = _file.read(self.event_size), before the loop and at its end,
\* and the loop condition evaluated on it: while not self.stop and event
\* enters the body, or leaves the with block and listen returns (its
\* local event is gone then)
ReadEvent(t) ==
    /\ run[t].pc = "read"
    /\ \E chunk \in ReadResults :
          LET full == Len(chunk) = event_size
          IN  /\ run' = [run EXCEPT
                    ![t].event = IF LoopCondition(stop, chunk)
                                 THEN chunk ELSE <<>>,
                    ![t].delivered = IF full THEN Append(@, chunk) ELSE @,
                    ![t].readsSinceStop = IF stop THEN @ + 1 ELSE @,
                    ![t].pc = IF LoopCondition(stop, chunk)
                              THEN "process" ELSE "done"]
              /\ nDelivered' = IF full THEN nDelivered + 1 ELSE nDelivered
    /\ UNCHANGED <<stop, is_connected, state, event_history, state_queue,
                   listening_thread, exists, main, consumer, nInterrupts,
                   stopped, h>>

\* self._unpack_event(event) on a chunk that is not event_size bytes long:
\* struct.unpack raises struct.error, which listen does not catch
UnpackFails(t) ==
    /\ run[t].pc = "process"
    /\ Len(run[t].event) # event_size
    /\ run' = [run EXCEPT ![t].exc = "struct.error", ![t].event = <<>>,
                          ![t].pc = "done"]
    /\ UNCHANGED <<stop, is_connected, state, event_history, state_queue,
                   listening_thread, exists, main, consumer, nDelivered,
                   nInterrupts, stopped, h>>

\* the signal is put before the record is handled
HandleRecord_SignalFirst(t) ==
    /\ run[t].pc = "process"
    /\ Len(run[t].event) = event_size
    /\ IF run[t].nput = Len(run[t].handled)
       THEN /\ state_queue' = Append(state_queue, TRUE)
            /\ run' = [run EXCEPT ![t].nput = @ + 1]
            /\ UNCHANGED <<state, event_history>>
       ELSE /\ LET a   == _unpack_event(run[t].event)
                   ev  == event_definition(a[4], a[3], a[2], a[1])
                   out == _handle_event(state, event_history, ev)
               IN  /\ state' = out.state
                   /\ event_history' = out.event_history
            /\ run' = [run EXCEPT ![t].handled = Append(@, run[t].event),
                                  ![t].pc = "read"]
            /\ UNCHANGED state_queue
    /\ UNCHANGED <<stop, is_connected, listening_thread, exists, main,
                   consumer, nDelivered, nInterrupts, stopped, h>>

\* self._unpack_event(event) and self._handle_event(...) on a full record
HandleRecord(t) ==
    /\ run[t].pc = "process"
    /\ Len(run[t].event) = event_size
    /\ LET a   == _unpack_event(run[t].event)
           ev  == event_definition(a[4], a[3], a[2], a[1])
           out == _handle_event(state, event_history, ev)
       IN  /\ state' = out.state
           /\ event_history' = out.event_history
    /\ run' = [run EXCEPT ![t].handled = Append(@, run[t].event),
                          ![t].pc = "put"]
    /\ UNCHANGED <<stop, is_connected, state_queue, listening_thread, exists,
                   main, consumer, nDelivered, nInterrupts, stopped, h>>

\* a signal only for the records the mapping recognizes
PutSignal_OnlyRecognized(t) ==
    /\ run[t].pc = "put"
    /\ LET a  == _unpack_event(run[t].event)
           ev == event_definition(a[4], a[3], a[2], a[1])
       IN  IF ev.preds = {}
           THEN /\ state_queue' = state_queue
                /\ run' = [run EXCEPT ![t].pc = "read"]
           ELSE /\ state_queue' = Append(state_queue, TRUE)
                /\ run' = [run EXCEPT ![t].nput = @ + 1, ![t].pc = "read"]
    /\ UNCHANGED <<stop, is_connected, state, event_history, listening_thread,
                   exists, main, consumer, nDelivered, nInterrupts, stopped,
                   h>>

\* self._state_queue.put(True)
PutSignal(t) ==
    /\ run[t].pc = "put"
    /\ state_queue' = Append(state_queue, TRUE)
    /\ run' = [run EXCEPT ![t].nput = @ + 1, ![t].pc = "read"]
    /\ UNCHANGED <<stop, is_connected, state, event_history, listening_thread,
                   exists, main, consumer, nDelivered, nInterrupts, stopped,
                   h>>

\* KeyboardInterrupt is raised in the thread running listen while it is
\* inside the try block. except KeyboardInterrupt: on_disconnect_callback(),
\* then self.stop_listening() up to its join; Thread.join on the current
\* thread raises RuntimeError
Interrupt(t) ==
    /\ run[t].pc \in TryPcs
    /\ nInterrupts < MaxInterrupts
    /\ nInterrupts' = nInterrupts + 1
    /\ is_connected' = FALSE
    /\ stop' = TRUE
    /\ IF listening_thread = 0
       THEN run' = [run EXCEPT ![t].interrupted = run[t].pc,
                               ![t].event = <<>>,
                               ![t].pc = "done"]
       ELSE IF listening_thread = t
       THEN run' = [run EXCEPT ![t].interrupted = run[t].pc,
                               ![t].event = <<>>,
                               ![t].exc = "RuntimeError",
                               ![t].pc = "done"]
       ELSE run' = [run EXCEPT ![t].interrupted = run[t].pc,
                               ![t].event = <<>>,
                               ![t].joining = listening_thread,
                               ![t].pc = "handler_join"]
    /\ UNCHANGED <<state, event_history, state_queue, listening_thread,
                   exists, main, consumer, nDelivered, stopped, h>>

\* the join of the handler's stop_listening returns, and listen returns
HandlerJoin(t) ==
    /\ run[t].pc = "handler_join"
    /\ run[run[t].joining].pc = "done"
    /\ run' = [run EXCEPT ![t].pc = "done"]
    /\ UNCHANGED <<stop, is_connected, state, event_history, state_queue,
                   listening_thread, exists, main, consumer, nDelivered,
                   nInterrupts, stopped, h>>

\* ------------------------------------------- Controller.state_updates
\* a consumer loop that never looks at the stop flag: while True
ConsumerCheck_NoStop ==
    /\ consumer.pc = "check"
    /\ consumer' = [consumer EXCEPT !.pc = "wait"]
    /\ UNCHANGED <<stop, is_connected, state, event_history, state_queue,
                   listening_thread, exists, run, main, nDelivered,
                   nInterrupts, stopped, h>>

\* while not self.stop
ConsumerCheck ==
    /\ consumer.pc = "check"
    /\ consumer' = [consumer EXCEPT !.pc = IF stop THEN "done" ELSE "wait"]
    /\ UNCHANGED <<stop, is_connected, state, event_history, state_queue,
                   listening_thread, exists, run, main, nDelivered,
                   nInterrupts, stopped, h>>

\* self._state_queue.get(timeout=1) returns a signal;
\* yield self.get_current_state(); the caller then asks for the next one
ConsumerGet ==
    /\ consumer.pc = "wait"
    /\ state_queue # <<>>
    /\ state_queue' = Tail(state_queue)
    /\ consumer' = [consumer EXCEPT
                       !.pc = "check",
                       !.nYield = @ + 1,
                       !.yieldsSinceStop = IF stop THEN @ + 1 ELSE @]
    /\ UNCHANGED <<stop, is_connected, state, event_history, listening_thread,
                   exists, run, main, nDelivered, nInterrupts, stopped, h>>

\* self._state_queue.get(timeout=1) raises Empty; except Empty: continue
ConsumerTimeout ==
    /\ consumer.pc = "wait"
    /\ state_queue = <<>>
    /\ consumer' = [consumer EXCEPT !.pc = "check"]
    /\ UNCHANGED <<stop, is_connected, state, event_history, state_queue,
                   listening_thread, exists, run, main, nDelivered,
                   nInterrupts, stopped, h>>

\* ------------------------------------------------------ the specification
RunnerStep(t) ==
    \/ PollInterface(t)
    \/ GiveUp(t)
    \/ OpenInterface(t)
    \/ ReadEvent(t)
    \/ UnpackFails(t)
    \/ HandleRecord(t)
    \/ PutSignal(t)
    \/ Interrupt(t)
    \/ HandlerJoin(t)

ConsumerStep ==
    \/ ConsumerCheck
    \/ ConsumerGet
    \/ ConsumerTimeout

Next ==
    \/ \E to \in Timeouts : StartListening(to)
    \/ \E to \in Timeouts : ListenDirect(to)
    \/ DirectReturn
    \/ StopListening
    \/ JoinReturn
    \/ DeviceAppears
    \/ DeviceDisappears
    \/ \E t \in Runners : RunnerStep(t)
    \/ ConsumerStep

Spec == Init /\ [][Next]_vars

\* ------------------------------------------- _handle_event on its own
\* an event object: the predicates that answer True, and event.value
Ev(preds, value) == [value |-> value, preds |-> preds]

\* the predicates _handle_event asks outside the two stick branches
ButtonPredicates ==
    {"circle_pressed", "circle_released", "x_pressed", "x_released",
     "triangle_pressed", "triangle_released", "square_pressed",
     "square_released", "L1_pressed", "L1_released", "R1_pressed",
     "R1_released", "options_pressed", "options_released",
     "left_right_arrow_released", "up_down_arrow_released",
     "left_arrow_pressed", "right_arrow_pressed", "up_arrow_pressed",
     "down_arrow_pressed", "playstation_button_pressed",
     "playstation_button_released", "share_pressed", "share_released",
     "R3_pressed", "R3_released", "L3_pressed", "L3_released"}
TriggerPredicates ==
    {"L2_pressed", "L2_released", "R2_pressed", "R2_released"}
\* the predicates asked inside a stick branch, per stick
R3Subs ==
    {"R3_y_at_rest", "R3_x_at_rest", "R3_right", "R3_left", "R3_up",
     "R3_down"}
L3Subs ==
    {"L3_y_at_rest", "L3_x_at_rest", "L3_up", "L3_down", "L3_left",
     "L3_right"}

\* events answering True to one predicate only
ButtonEvents == {Ev({p}, 1) : p \in ButtonPredicates}
TriggerEvents == {Ev({p}, v) : p \in TriggerPredicates, v \in {0, 12000}}
\* stick events: no sub-predicate, one, or an at-rest one with another
R3Choices ==
    {{}} \cup {{p} : p \in R3Subs}
    \cup {{"R3_y_at_rest", "R3_up"}, {"R3_x_at_rest", "R3_right"},
          {"R3_y_at_rest", "R3_x_at_rest"}}
L3Choices ==
    {{}} \cup {{p} : p \in L3Subs}
    \cup {{"L3_y_at_rest", "L3_up"}, {"L3_x_at_rest", "L3_left"},
          {"L3_y_at_rest", "L3_x_at_rest"}}
StickEvents ==
    {Ev({"R3_event"} \cup c, v) : c \in R3Choices, v \in {0, -200}}
    \cup {Ev({"L3_event"} \cup c, v) : c \in L3Choices, v \in {0, -200}}
\* events answering True to the predicates of two branches
OverlapEvents ==
    {Ev({"R3_event", "R3_up", "L3_event", "L3_up"}, 12000),
     Ev({"L3_event", "L3_left", "circle_pressed"}, 12000),
     Ev({"circle_pressed", "circle_released"}, 12000),
     Ev({"L2_pressed", "R1_pressed"}, 12000),
     Ev({"R2_released", "options_pressed"}, 12000),
     Ev({"left_right_arrow_released", "right_arrow_pressed"}, 12000),
     Ev({"left_arrow_pressed", "share_pressed"}, 12000),
     Ev({"up_down_arrow_released", "L3_pressed"}, 12000)}
\* events no branch takes: no predicate, or a stick sub-predicate alone
UnknownEvents == {Ev({}, 1), Ev({"R3_up"}, -200)}
AllEvents ==
    ButtonEvents \cup TriggerEvents \cup StickEvents \cup OverlapEvents
    \cup UnknownEvents

\* the buttons and triggers only
ScenarioEvents ==
    {Ev({"circle_pressed"}, 1), Ev({"circle_released"}, 0),
     Ev({"L2_pressed"}, 12000), Ev({"L2_pressed"}, 0),
     Ev({"L2_released"}, 0), Ev({"R2_pressed"}, -200),
     Ev({"R2_released"}, 0)}

\* the directional pad only
TornEvents ==
    {Ev({"left_arrow_pressed"}, 1), Ev({"right_arrow_pressed"}, 1),
     Ev({"up_arrow_pressed"}, 1), Ev({"left_right_arrow_released"}, 0),
     Ev({"up_down_arrow_released"}, 0)}

\* a released trigger goes back to 0
ApplyEvent_ZeroRest(ev) ==
    /\ h.pending = <<>>
    /\ LET out == _handle_event(state, event_history, ev)
       IN  /\ state' = IF ev.preds = {"L2_released"}
                       THEN [out.state EXCEPT !.L2_button = 0]
                       ELSE IF ev.preds = {"R2_released"}
                       THEN [out.state EXCEPT !.R2_button = 0]
                       ELSE out.state
           /\ event_history' = out.event_history
    /\ h' = [h EXCEPT !.trace = Append(@, ev)]
    /\ UNCHANGED <<stop, is_connected, state_queue, listening_thread, exists,
                   run, main, consumer, nDelivered, nInterrupts, stopped>>

\* the combined left+right release forgets the right flag
ApplyEvent_ClearsOne(ev) ==
    /\ h.pending = <<>>
    /\ LET out == _handle_event(state, event_history, ev)
       IN  /\ state' = IF ev.preds = {"left_right_arrow_released"}
                       THEN [out.state EXCEPT !.right_arrow = state.right_arrow]
                       ELSE out.state
           /\ event_history' = out.event_history
    /\ h' = [h EXCEPT !.trace = Append(@, ev)]
    /\ UNCHANGED <<stop, is_connected, state_queue, listening_thread, exists,
                   run, main, consumer, nDelivered, nInterrupts, stopped>>

\* the left-stick branch is an if of its own, not an elif
ApplyEvent_NoElif(ev) ==
    /\ h.pending = <<>>
    /\ LET first == _handle_event(state, event_history, ev)
           out   == IF Is(ev, "R3_event") /\ Is(ev, "L3_event")
                    THEN _handle_event(first.state, first.event_history,
                                       Ev(ev.preds \ {"R3_event"}, ev.value))
                    ELSE first
       IN  /\ state' = out.state
           /\ event_history' = out.event_history
    /\ h' = [h EXCEPT !.trace = Append(@, ev)]
    /\ UNCHANGED <<stop, is_connected, state_queue, listening_thread, exists,
                   run, main, consumer, nDelivered, nInterrupts, stopped>>

\* the circle-released branch appends the label as well
ApplyEvent_ReleaseLabels(ev) ==
    /\ h.pending = <<>>
    /\ LET out == _handle_event(state, event_history, ev)
       IN  /\ state' = out.state
           /\ event_history' = IF ev.preds = {"circle_released"}
                               THEN Append(out.event_history, "circle")
                               ELSE out.event_history
    /\ h' = [h EXCEPT !.trace = Append(@, ev)]
    /\ UNCHANGED <<stop, is_connected, state_queue, listening_thread, exists,
                   run, main, consumer, nDelivered, nInterrupts, stopped>>

\* the circle-pressed branch appends its label twice
ApplyEvent_TwoLabels(ev) ==
    /\ h.pending = <<>>
    /\ LET out == _handle_event(state, event_history, ev)
       IN  /\ state' = out.state
           /\ event_history' = IF ev.preds = {"circle_pressed"}
                               THEN Append(out.event_history, "circle")
                               ELSE out.event_history
    /\ h' = [h EXCEPT !.trace = Append(@, ev)]
    /\ UNCHANGED <<stop, is_connected, state_queue, listening_thread, exists,
                   run, main, consumer, nDelivered, nInterrupts, stopped>>

\* self._handle_event(event), the whole call
ApplyEvent(ev) ==
    /\ h.pending = <<>>
    /\ LET out == _handle_event(state, event_history, ev)
       IN  /\ state' = out.state
           /\ event_history' = out.event_history
    /\ h' = [h EXCEPT !.trace = Append(@, ev)]
    /\ UNCHANGED <<stop, is_connected, state_queue, listening_thread, exists,
                   run, main, consumer, nDelivered, nInterrupts, stopped>>

HandlerNext ==
    /\ Len(h.trace) < MaxEvents
    /\ \E ev \in ScenarioEvents : ApplyEvent(ev)

\* _handle_event called up to MaxEvents times on button and trigger events
HandlerSpec == Init /\ [][HandlerNext]_vars

DispatchNext ==
    /\ Len(h.trace) < MaxDispatch
    /\ \E ev \in AllEvents : ApplyEvent(ev)

\* _handle_event called up to MaxDispatch times on events of every kind
DispatchSpec == Init /\ [][DispatchNext]_vars

\* events answering True to two of the predicates asked at the top level of
\* the chain, every pair of them
TopPredicates ==
    {"R3_event", "L3_event"} \cup ButtonPredicates \cup TriggerPredicates
PairEvents ==
    UNION {{Ev({p, q}, 12000) : q \in TopPredicates \ {p}} :
           p \in TopPredicates}

\* events of one predicate set the snapshot up, an event of two follows
OrderNext ==
    \/ /\ Len(h.trace) + 1 < MaxOrder
       /\ \E ev \in ButtonEvents \cup TriggerEvents : ApplyEvent(ev)
    \/ /\ Len(h.trace) < MaxOrder
       /\ \A i \in 1..Len(h.trace) : h.trace[i] \notin PairEvents
       /\ \E ev \in PairEvents : ApplyEvent(ev)

\* _handle_event called up to MaxOrder times, last on an event that answers
\* True to two top-level predicates
OrderSpec == Init /\ [][OrderNext]_vars

\* -------------------------------- _handle_event next to a snapshot reader
\* The snapshot after the first assignment of a branch that makes two (the
\* combined releases), out being what the whole branch leaves. When fewer
\* than two fields change it is the snapshot before or the one after.
AfterFirstAssignment(st, out) ==
    IF out.left_arrow # st.left_arrow /\ out.right_arrow # st.right_arrow
    THEN [st EXCEPT !.left_arrow = out.left_arrow]
    ELSE IF out.up_arrow # st.up_arrow /\ out.down_arrow # st.down_arrow
    THEN [st EXCEPT !.up_arrow = out.up_arrow]
    ELSE out

\* the listening thread enters _handle_event and runs it up to the point
\* between the two assignments, or to its end when there is no such point
BeginHandle(ev) ==
    /\ h.pending = <<>>
    /\ LET out == _handle_event(state, event_history, ev)
           mid == AfterFirstAssignment(state, out.state)
       IN  /\ state' = mid
           /\ event_history' = out.event_history
           /\ h' = [h EXCEPT !.trace = Append(@, ev),
                             !.pending = IF mid = out.state THEN <<>>
                                         ELSE <<out.state>>]
    /\ UNCHANGED <<stop, is_connected, state_queue, listening_thread, exists,
                   run, main, consumer, nDelivered, nInterrupts, stopped>>

\* the second assignment of the branch
EndHandle ==
    /\ h.pending # <<>>
    /\ state' = h.pending[1]
    /\ h' = [h EXCEPT !.pending = <<>>]
    /\ UNCHANGED <<stop, is_connected, event_history, state_queue,
                   listening_thread, exists, run, main, consumer, nDelivered,
                   nInterrupts, stopped>>

\* Controller.get_current_state on another thread: no lock is taken. The
\* field-by-field copy of to_dict is taken as one read.
GetCurrentState ==
    /\ h' = [h EXCEPT !.seen = <<state>>]
    /\ UNCHANGED <<stop, is_connected, state, event_history, state_queue,
                   listening_thread, exists, run, main, consumer, nDelivered,
                   nInterrupts, stopped>>

TornNext ==
    \/ Len(h.trace) < MaxTorn /\ \E ev \in TornEvents : BeginHandle(ev)
    \/ EndHandle
    \/ GetCurrentState

\* the listening thread handling up to MaxTorn directional events while
\* another thread calls get_current_state
TornSpec == Init /\ [][TornNext]_vars

\* ------------------------------------------------------------ the claims
IsPrefix(s, t) == Len(s) <= Len(t) /\ \A i \in 1..Len(s) : s[i] = t[i]

RECURSIVE SumPut(_)
SumPut(S) ==
    IF S = {} THEN 0
    ELSE LET t == CHOOSE u \in S : TRUE IN run[t].nput + SumPut(S \ {t})

\* C1: in every listen call the records passed to _handle_event are, in
\* order, a prefix of the records its reads have delivered, and at most the
\* one record just read is not yet passed on.
C1_FifoPrefix ==
    \A t \in Runners :
        /\ IsPrefix(run[t].handled, run[t].delivered)
        /\ Len(run[t].delivered) - Len(run[t].handled) <= 1

\* two different records have been handled by one listen call, in order
C1_Witness ==
    \E t \in Runners :
        /\ Len(run[t].handled) = 2
        /\ run[t].handled[1] # run[t].handled[2]
        /\ run[t].handled = run[t].delivered

\* C2: one signal per processed record: at the end of every loop iteration
\* a listen call has put as many signals as it has passed records to
\* _handle_event, whatever the records changed, and the signals ever put
\* (queued or already consumed) are the sum over the listen calls.
C2_OneSignalPerRecord ==
    /\ \A t \in Runners :
          /\ run[t].nput <= Len(run[t].handled)
          /\ Len(run[t].handled) <= run[t].nput + 1
          /\ run[t].pc \in {"read", "process"}
                => run[t].nput = Len(run[t].handled)
          /\ (run[t].pc = "done" /\ run[t].interrupted = "no")
                => run[t].nput = Len(run[t].handled)
    /\ Len(state_queue) + consumer.nYield = SumPut(Runners)

\* a record that assigns no field and one that assigns two were processed,
\* and two signals were put
C2_Witness ==
    \E t \in Runners :
        /\ run[t].pc = "read"
        /\ run[t].handled = <<RecUnknown, RecLeftRight>>
        /\ run[t].nput = 2
        /\ Len(event_history) = 0

\* C3: a listen call never polls more than timeout times; when the gate
\* fails every one of the timeout polls found no path, listen has returned
\* without opening the file, reading, handling or signalling; and when that
\* call is the only one made, connected is false and the snapshot, the
\* history and the queue are as constructed.
C3_GateFailure ==
    \A t \in Runners :
        /\ Len(run[t].pollLog) <= run[t].timeout
        /\ run[t].gate = "failed" =>
              /\ run[t].pc = "done"
              /\ Len(run[t].pollLog) = run[t].timeout
              /\ \A i \in 1..Len(run[t].pollLog) : ~run[t].pollLog[i]
              /\ ~run[t].opened
              /\ run[t].exc = "none"
              /\ run[t].delivered = <<>>
              /\ run[t].handled = <<>>
              /\ run[t].nput = 0
              /\ (\A u \in Runners \ {t} : run[u].pc = "unborn") =>
                    /\ ~is_connected
                    /\ state = ControllerState
                    /\ event_history = <<>>
                    /\ state_queue = <<>>
                    /\ nDelivered = 0

\* the path was missing at both polls of a timeout of 2
C3_Witness ==
    \E t \in Runners :
        /\ run[t].gate = "failed"
        /\ run[t].timeout = 2
        /\ run[t].pollLog = <<FALSE, FALSE>>
        /\ \A u \in Runners \ {t} : run[u].pc = "unborn"

\* the step in which wait_for_interface returns
C4_GateStep ==
    \A t \in Runners :
        (run[t].pc = "poll" /\ run'[t].pc # "poll") =>
            LET log == run'[t].pollLog
                found == \E i \in 1..Len(log) : log[i]
            IN  /\ (run'[t].gate = "ok") <=> found
                /\ Len(log) <= run[t].timeout
                /\ \A i \in 1..(Len(log) - 1) : ~log[i]
                /\ found => /\ log[Len(log)]
                            /\ is_connected'
                            /\ run'[t].pc = "open"
                /\ ~found => /\ run'[t].gate = "failed"
                             /\ run'[t].pc = "done"
                             /\ Len(log) = run[t].timeout

\* C4: whenever wait_for_interface returns, it returns success exactly when
\* one of its polls found the path, which is then its last poll and one of
\* the attempts 1..timeout; on success connected is true and listen goes on
\* to open the file, on failure all timeout attempts were made.
C4_GateIff == [][C4_GateStep]_vars

\* the path appeared exactly at the last permitted attempt, and the gate
\* let listen through
C4_Witness ==
    \E t \in Runners :
        /\ run[t].pc = "open"
        /\ run[t].gate = "ok"
        /\ run[t].timeout >= 2
        /\ Len(run[t].pollLog) = run[t].timeout
        /\ is_connected

\* C5: a chunk shorter than a record never reaches the loop body, and
\* struct.error never leaves listen.
C5_ShortReadClean ==
    \A t \in Runners :
        /\ run[t].pc = "process" => Len(run[t].event) = event_size
        /\ run[t].exc # "struct.error"

\* C6: when listen has returned because its loop ended, after a gate that
\* succeeded, connected is false.
C6_ClosedDisconnects ==
    \A t \in Runners :
        (/\ run[t].pc = "done"
         /\ run[t].opened
         /\ run[t].exc = "none"
         /\ run[t].interrupted = "no") => ~is_connected

\* C7: once stop_listening has returned, and until the next
\* start_listening, no thread started by start_listening handles a record
\* or puts a signal, and the snapshot and the history stay as they are.
C7_NothingAfterStop ==
    [][stopped =>
          /\ state' = state
          /\ event_history' = event_history
          /\ \A t \in Runners :
                run[t].kind = "thread" =>
                    /\ run'[t].handled = run[t].handled
                    /\ run'[t].nput = run[t].nput]_vars

\* C8: while the stop flag is set, at most one read of a listen call
\* returns, and when it has returned listen has ended without handling the
\* record it read.
C8_StopEndsPipeline ==
    \A t \in Runners :
        /\ run[t].readsSinceStop <= 1
        /\ run[t].readsSinceStop = 1 =>
              /\ run[t].pc = "done"
              /\ run[t].nput = Len(run[t].handled)

\* the flag was set before the first read returned: a full record was read
\* and dropped
C8_Witness ==
    \E t \in Runners :
        /\ run[t].readsSinceStop = 1
        /\ Len(run[t].delivered) = 1
        /\ run[t].handled = <<>>
        /\ run[t].exc = "none"
        /\ run[t].interrupted = "no"

\* the steps of the consumer on a timeout and on a set stop flag
C9_TimeoutStep ==
    (consumer.pc = "wait" /\ state_queue = <<>> /\ consumer' # consumer) =>
        /\ consumer'.pc = "check"
        /\ consumer'.nYield = consumer.nYield

C9_StopStep ==
    (consumer.pc = "check" /\ stop /\ consumer'.pc # "check") =>
        consumer'.pc = "done"

C9_YieldBound ==
    /\ consumer.yieldsSinceStop <= 1
    /\ consumer.yieldsSinceStop = 1 => consumer.pc \in {"check", "done"}

\* C9: a wait that times out yields nothing and leads back to the test of
\* the stop flag; while the stop flag is set the consumer yields at most one
\* snapshot, and after it the generator ends at its next test.
C9_Consumer ==
    /\ []C9_YieldBound
    /\ [][C9_TimeoutStep /\ C9_StopStep]_vars

\* the consumer received one signal after the flag was set, and has ended
C9_Witness ==
    /\ consumer.pc = "done"
    /\ consumer.yieldsSinceStop = 1
    /\ stop

\* C10: an interrupt in the read loop leaves no exception behind: listen
\* returns normally, with stop set.
C10_InterruptIsStop ==
    \A t \in Runners :
        run[t].interrupted \in {"read", "process", "put"} =>
            /\ run[t].exc = "none"
            /\ run[t].pc \in {"done", "handler_join"}

\* ---------------------------------------- the claims about _handle_event
\* this step is one call of _handle_event, and Last is the event it got
Called == Len(h'.trace) = Len(h.trace) + 1
Last == h'.trace[Len(h'.trace)]

C11_Trace ==
    <<Ev({"circle_pressed"}, 1), Ev({"circle_released"}, 0),
      Ev({"L2_pressed"}, 12000), Ev({"L2_released"}, 0)>>

C11_Scenario ==
    h.trace = C11_Trace =>
        /\ state = ControllerState
        /\ state.circle_button = FALSE
        /\ state.L2_button = -32767
        /\ event_history = <<"circle", "L2">>

C11_TriggerStep ==
    Called =>
        /\ Last.preds = {"L2_pressed"} =>
              /\ state' = [state EXCEPT !.L2_button = Last.value]
              /\ event_history' = Append(event_history, "L2")
        /\ Last.preds = {"R2_pressed"} =>
              /\ state' = [state EXCEPT !.R2_button = Last.value]
              /\ event_history' = Append(event_history, "R2")
        /\ Last.preds = {"L2_released"} =>
              /\ state' = [state EXCEPT !.L2_button = -32767]
              /\ event_history' = event_history
        /\ Last.preds = {"R2_released"} =>
              /\ state' = [state EXCEPT !.R2_button = -32767]
              /\ event_history' = event_history

\* C11: a trigger-pressed event stores event.value in its trigger field and
\* appends the trigger's label; a trigger-released event sets the field to
\* -32767 whatever it held and appends nothing; nothing else changes. After
\* circle pressed, circle released, L2 pressed with 12000 and L2 released,
\* from the constructed state, circle_button is False, L2_button is -32767
\* and event_history is ["circle", "L2"].
C11_TriggerRest == []C11_Scenario /\ [][C11_TriggerStep]_vars

\* the four events of the scenario have been handled
C11_Witness ==
    /\ h.trace = C11_Trace
    /\ state.L2_button = -32767
    /\ event_history = <<"circle", "L2">>

C12_Pressed ==
    /\ Last.preds = {"left_arrow_pressed"} =>
          state' = [state EXCEPT !.left_arrow = TRUE]
    /\ Last.preds = {"right_arrow_pressed"} =>
          state' = [state EXCEPT !.right_arrow = TRUE]
    /\ Last.preds = {"up_arrow_pressed"} =>
          state' = [state EXCEPT !.up_arrow = TRUE]
    /\ Last.preds = {"down_arrow_pressed"} =>
          state' = [state EXCEPT !.down_arrow = TRUE]

C12_Released ==
    /\ Last.preds = {"left_right_arrow_released"} =>
          state' = [state EXCEPT !.left_arrow = FALSE, !.right_arrow = FALSE]
    /\ Last.preds = {"up_down_arrow_released"} =>
          state' = [state EXCEPT !.up_arrow = FALSE, !.down_arrow = FALSE]

C12_StaysSet ==
    /\ \A f \in {"left_arrow", "right_arrow"} :
          state[f] /\ ~state'[f] =>
              Called /\ "left_right_arrow_released" \in Last.preds
    /\ \A f \in {"up_arrow", "down_arrow"} :
          state[f] /\ ~state'[f] =>
              Called /\ "up_down_arrow_released" \in Last.preds

\* C12: a direction-pressed event sets its own flag and nothing else; the
\* combined left+right release sets left_arrow and right_arrow to False,
\* whichever of them was True, and nothing else; the combined up+down
\* release does the same for up_arrow and down_arrow; and a direction flag
\* goes from True to False only in a call whose event answers True to the
\* combined release of its axis.
C12_DpadAsymmetry ==
    [][(Called => C12_Pressed /\ C12_Released) /\ C12_StaysSet]_vars

\* right pressed, then the combined release with only right set
C12_Witness ==
    /\ h.trace = <<Ev({"right_arrow_pressed"}, 1),
                   Ev({"left_right_arrow_released"}, 1)>>
    /\ ~state.left_arrow
    /\ ~state.right_arrow

\* the snapshot after the events of tr have been handled, one whole call
\* after the other, from the constructed state
RECURSIVE StateAfter(_)
StateAfter(tr) ==
    IF tr = <<>> THEN ControllerState
    ELSE _handle_event(StateAfter(SubSeq(tr, 1, Len(tr) - 1)), <<>>,
                       tr[Len(tr)]).state

\* C13: every snapshot get_current_state returns is the snapshot before or
\* after some whole event was handled; none shows left_arrow cleared and
\* right_arrow still set in the middle of a combined release.
C13_NoTornRead ==
    h.seen # <<>> =>
        \E k \in 0..Len(h.trace) :
            h.seen[1] = StateAfter(SubSeq(h.trace, 1, k))

\* the threads of start_listening that are running listen
AlivePipelines ==
    {t \in Runners : run[t].kind = "thread"
                     /\ run[t].pc \notin {"unborn", "done"}}

\* C14: whatever start_listening and stop_listening calls were made, at
\* most one thread of start_listening is alive at any time.
C14_OneWriter == Cardinality(AlivePipelines) <= 1

\* the first predicate of order that the event answers True to
FirstIn(order, preds) ==
    LET idx == {i \in 1..Len(order) : order[i] \in preds}
    IN  IF idx = {} THEN "none"
        ELSE order[CHOOSE i \in idx : \A j \in idx : i <= j]

\* the event answering True to p only (and, for a stick, to what it
\* answered of that stick's sub-predicates)
Only(ev, p) ==
    Ev(IF p = "none" THEN {}
       ELSE IF p = "R3_event" THEN {p} \cup (ev.preds \cap R3Subs)
       ELSE IF p = "L3_event" THEN {p} \cup (ev.preds \cap L3Subs)
       ELSE {p},
       ev.value)

\* the call did what it does on the first match in order alone
FirstMatch(order) ==
    Called =>
        LET out == _handle_event(state, event_history,
                                 Only(Last, FirstIn(order, Last.preds)))
        IN  /\ state' = out.state
            /\ event_history' = out.event_history

\* the order of the elif chain
C15_SourceOrder ==
    <<"R3_event", "L3_event", "circle_pressed", "circle_released",
      "x_pressed", "x_released", "triangle_pressed", "triangle_released",
      "square_pressed", "square_released", "L1_pressed", "L1_released",
      "L2_pressed", "L2_released", "R1_pressed", "R1_released",
      "R2_pressed", "R2_released", "options_pressed", "options_released",
      "left_right_arrow_released", "up_down_arrow_released",
      "left_arrow_pressed", "right_arrow_pressed", "up_arrow_pressed",
      "down_arrow_pressed", "playstation_button_pressed",
      "playstation_button_released", "share_pressed", "share_released",
      "R3_pressed", "R3_released", "L3_pressed", "L3_released">>

\* sticks, digital buttons, triggers, directional pad
C15_CategoryOrder ==
    <<"R3_event", "L3_event", "circle_pressed", "circle_released",
      "x_pressed", "x_released", "triangle_pressed", "triangle_released",
      "square_pressed", "square_released", "L1_pressed", "L1_released",
      "R1_pressed", "R1_released", "options_pressed", "options_released",
      "playstation_button_pressed", "playstation_button_released",
      "share_pressed", "share_released", "R3_pressed", "R3_released",
      "L3_pressed", "L3_released", "L2_pressed", "L2_released",
      "R2_pressed", "R2_released", "left_right_arrow_released",
      "up_down_arrow_released", "left_arrow_pressed", "right_arrow_pressed",
      "up_arrow_pressed", "down_arrow_pressed">>

\* C15 as stated: an event answering True to the predicates of two
\* categories is handled as the category that comes first in the order
\* right stick, left stick, digital buttons, triggers, directional pad.
C15_CategoryFirst == [][FirstMatch(C15_CategoryOrder)]_vars

\* C15: dispatch is first-match-wins in the order of the elif chain: right
\* stick, left stick, circle, x, triangle, square, L1, L2, R1, R2, options,
\* left+right released, up+down released, left, right, up, down pressed,
\* playstation, share, R3 button, L3 button (pressed before released within
\* a pair); an event answering True to two of these predicates is handled
\* exactly as if it answered True to the earlier one only.
C15_SourceFirst == [][FirstMatch(C15_SourceOrder)]_vars

\* an event that is both L2 pressed and R1 pressed was handled as L2
C15_Witness ==
    /\ h.trace = <<Ev({"L2_pressed", "R1_pressed"}, 12000)>>
    /\ state.L2_button = 12000
    /\ ~state.R1_button
    /\ event_history = <<"L2">>

\* the top-level predicates whose branch appends a label
Appending ==
    {"R3_event", "L3_event", "circle_pressed", "x_pressed",
     "triangle_pressed", "square_pressed", "L1_pressed", "L2_pressed",
     "R1_pressed", "R2_pressed", "options_pressed", "left_arrow_pressed",
     "right_arrow_pressed", "up_arrow_pressed", "down_arrow_pressed",
     "playstation_button_pressed", "share_pressed", "R3_pressed",
     "L3_pressed"}

\* C16 as stated: a call of _handle_event that changes a snapshot field
\* makes event_history one label longer.
C16_AssignAppends ==
    [][state' # state => Len(event_history') = Len(event_history) + 1]_vars

\* the event takes a stick branch and answers True to none of that stick's
\* at-rest and directional predicates
NoSubMatch(ev) ==
    \/ "R3_event" \in ev.preds /\ ev.preds \cap R3Subs = {}
    \/ /\ "R3_event" \notin ev.preds
       /\ "L3_event" \in ev.preds
       /\ ev.preds \cap L3Subs = {}

\* C16: a call of _handle_event that takes a pressed branch (button,
\* trigger, direction), or a stick branch with an at-rest or directional
\* sub-match, makes event_history exactly one label longer; a call that
\* takes a released branch, a trigger reset or a combined directional
\* release, or no branch, leaves event_history as it is.
C16_PressedAppends ==
    [][Called /\ ~NoSubMatch(Last) =>
        IF FirstIn(C15_SourceOrder, Last.preds) \in Appending
        THEN /\ Len(event_history') = Len(event_history) + 1
             /\ SubSeq(event_history', 1, Len(event_history)) = event_history
        ELSE event_history' = event_history]_vars

\* circle pressed and released: the field was set twice, one label
C16_Witness ==
    /\ h.trace = <<Ev({"circle_pressed"}, 1), Ev({"circle_released"}, 1)>>
    /\ ~state.circle_button
    /\ event_history = <<"circle">>

\* C17: a call of _handle_event on an event that answers True to no
\* top-level predicate, or that takes a stick branch without an at-rest or
\* directional sub-match, changes no snapshot field and appends nothing.
C17_NoOpUntouched ==
    [][Called /\ (FirstIn(C15_SourceOrder, Last.preds) = "none"
                  \/ NoSubMatch(Last)) =>
        state' = state /\ event_history' = event_history]_vars

\* the label of each branch that appends one
C18_LabelOf ==
    [p \in Appending |->
        CASE p = "R3_event" -> "right_joystick"
          [] p = "L3_event" -> "left_joystick"
          [] p = "circle_pressed" -> "circle"
          [] p = "x_pressed" -> "x"
          [] p = "triangle_pressed" -> "triangle"
          [] p = "square_pressed" -> "square"
          [] p = "L1_pressed" -> "L1"
          [] p = "L2_pressed" -> "L2"
          [] p = "R1_pressed" -> "R1"
          [] p = "R2_pressed" -> "R2"
          [] p = "options_pressed" -> "options"
          [] p = "left_arrow_pressed" -> "left"
          [] p = "right_arrow_pressed" -> "right"
          [] p = "up_arrow_pressed" -> "up"
          [] p = "down_arrow_pressed" -> "down"
          [] p = "playstation_button_pressed" -> "ps"
          [] p = "share_pressed" -> "share"
          [] p = "R3_pressed" -> "R3"
          [] p = "L3_pressed" -> "L3"]

C18_Bounded ==
    /\ Len(event_history) <= Len(h.trace)
    /\ \A i \in 1..Len(event_history) :
          Cardinality({p \in Appending :
                          C18_LabelOf[p] = event_history[i]}) = 1

C18_AppendOnly ==
    Called =>
        \/ event_history' = event_history
        \/ LET p == FirstIn(C15_SourceOrder, Last.preds)
           IN  /\ p \in Appending
               /\ event_history' = Append(event_history, C18_LabelOf[p])

\* C18: event_history is never longer than the number of events handled;
\* a call of _handle_event leaves it as it is or appends one label at its
\* end, the label of the branch the call took; and every label in it is
\* the label of exactly one branch.
C18_HistoryGrows == []C18_Bounded /\ [][C18_AppendOnly]_vars

\* a left-stick event and an unknown event: two events, one label
C18_Witness ==
    /\ h.trace = <<Ev({"L3_event", "L3_up"}, -200), Ev({}, 1)>>
    /\ event_history = <<"left_joystick">>

\* the field a stick sub-predicate writes
C19_AxisOf ==
    [p \in R3Subs \cup L3Subs |->
        IF p \in {"R3_y_at_rest", "R3_up", "R3_down"} THEN "R3_y_axis"
        ELSE IF p \in {"R3_x_at_rest", "R3_left", "R3_right"} THEN "R3_x_axis"
        ELSE IF p \in {"L3_y_at_rest", "L3_up", "L3_down"} THEN "L3_y_axis"
        ELSE "L3_x_axis"]

C19_AtRest ==
    {"R3_y_at_rest", "R3_x_at_rest", "L3_y_at_rest", "L3_x_at_rest"}

\* the sub-predicates of the stick whose branch the event takes that the
\* event answers True to
C19_Subs(ev) ==
    IF "R3_event" \in ev.preds THEN ev.preds \cap R3Subs
    ELSE IF "L3_event" \in ev.preds THEN ev.preds \cap L3Subs
    ELSE {}

C19_OneAxis ==
    Called /\ C19_Subs(Last) # {} =>
        LET subs == C19_Subs(Last)
            rest == subs \cap C19_AtRest
        IN  IF rest # {}
            THEN \E p \in rest :
                    state' = [state EXCEPT ![C19_AxisOf[p]] = 0]
            ELSE \E p \in subs :
                    state' = [state EXCEPT ![C19_AxisOf[p]] = Last.value]

C19_LeftYAtRest ==
    Called /\ Last.preds = {"L3_event", "L3_y_at_rest"} =>
        state' = [state EXCEPT !.L3_y_axis = 0]

\* C19: a stick event with an at-rest or directional sub-match writes
\* exactly one of the four axis fields, an axis of its own stick, and leaves
\* every other snapshot field as it is: 0 when an at-rest predicate of the
\* stick answers True (the at-rest checks come first), event.value
\* otherwise; L3-y-at-rest sets L3_y_axis to 0 and nothing else.
C19_OwnAxisOnly == [][C19_OneAxis /\ C19_LeftYAtRest]_vars

\* the left stick was moved, then its y axis came back to rest
C19_Witness ==
    /\ h.trace = <<Ev({"L3_event", "L3_left"}, -200),
                   Ev({"L3_event", "L3_y_at_rest", "L3_up"}, -200)>>
    /\ state.L3_x_axis = -200
    /\ state.L3_y_axis = 0

\* ------------------------------------- the claim about signal and state
\* the snapshot after the records recs have been handled, in order, from
\* the constructed state
RECURSIVE SnapshotOf(_)
SnapshotOf(recs) ==
    IF recs = <<>> THEN ControllerState
    ELSE LET a  == _unpack_event(recs[Len(recs)])
             ev == event_definition(a[4], a[3], a[2], a[1])
         IN  _handle_event(SnapshotOf(SubSeq(recs, 1, Len(recs) - 1)), <<>>,
                           ev).state

\* listen has been called once at most
OnePipeline == \A t \in Runners \ {1} : run[t].pc = "unborn"

\* C20: with one pipeline and one consumer, the consumer has received no
\* more signals than the pipeline has put and no more than it has handled
\* records, and the snapshot is the one all the handled records leave: when
\* the consumer gets its k-th signal the snapshot it reads holds the first k
\* records at least.
C20_StateBeforeSignal ==
    OnePipeline =>
        /\ consumer.nYield <= run[1].nput
        /\ consumer.nYield <= Len(run[1].handled)
        /\ state = SnapshotOf(run[1].handled)

\* the consumer has received two signals, the second one for a record that
\* changed nothing
C20_Witness ==
    /\ OnePipeline
    /\ consumer.nYield = 2
    /\ run[1].handled = <<RecCircle, RecUnknown>>
    /\ state.circle_button

====
